---- MODULE Spec2Model ----
(***************************************************************************)
(* Model of supagraph's live ingestion core.                               *)
(*                                                                         *)
(*   Spec       the block listener, the block queue and its dispatcher     *)
(*              (createListener, attemptNextBlock, processListenerBlock-   *)
(*              Safely, startProcessingBlock, the per-block timeout).      *)
(*   DetachSpec the same listener, in sync, with the detach functions      *)
(*              attachListeners returns.                                   *)
(*   StoreSpec  the Mongo persistence adapter (get, put, del, batch).      *)
(*   StoreFaultSpec  the adapter on a database that can reject a write.    *)
(*   ErrorSpec  the provider error handler next to the listener.           *)
(*   LiveSpec   the listener under fairness, with consecutive blocks.      *)
(*   StagingSpec  the staging future (asyncParts) of the queue entries.    *)
(*   ReceiptSpec  getTransactionReceipt and getReceipt.                    *)
(*   RangeSpec  txsFromRange and the closures it pushes onto reqStack.     *)
(*   RangeLiveSpec  txsFromRange when every read and fetch completes.      *)
(***************************************************************************)
EXTENDS Integers, Sequences, FiniteSets, TLC

\* ------------------------------------------------------------------------
\* Bounds of the model
\* ------------------------------------------------------------------------
\* chains with a provider attached
Chains == {1, 2}
\* highest block number a provider emits
MaxBlock == 3
\* most processListenerBlock invocations followed in one behaviour
MaxCalls == 2
\* most entries the block queue holds
MaxQueue == 2
\* engine.latestBlocks[chainId].number when the listeners are attached
InitLatest == 1

VARIABLES
    listening,      \* state.listening
    inSync,         \* state.inSync
    blockQueue,     \* the blockQueue array of attachListeners
    latestBlocks,   \* engine.latestBlocks[chainId].number
    startBlocks,    \* engine.startBlocks[chainId]
    emitted,        \* last block number each provider emitted
    loop,           \* position of the dispatcher loop of attachListeners
    currentProcess, \* engine.currentProcess: index in calls of the awaited call
    calls,          \* every processListenerBlock invocation, oldest first
    detach,         \* position of each chain's detach function
    kv,             \* Mongo.kv: the hot cache, kv[ref][id]
    docs,           \* the documents of each mongo collection, in natural order
    mutable,        \* Mongo.mutable
    readOnly,       \* engine.readOnly
    newDb,          \* engine.newDb
    warmDb,         \* engine.warmDb
    op,             \* the put, del or batch call in progress, or the last one
    nops,           \* single operations issued so far
    lastError,      \* code of the error last given to the provider error handler
    rejected,       \* the errors handed to errorHandlers.reject, oldest first
    hasReject,      \* whether attachListeners was given a reject callback
    staging,        \* the asyncParts future of every queue entry created
    disk,           \* the artefacts saveJSON has written
    cleanup,        \* engine.flags.cleanup
    rx,             \* the getTransactionReceipt call in progress, or the last one
    from,           \* txsFromRange: the parameter from, which the loop advances
    to,             \* txsFromRange: the parameter to
    rangePc,        \* txsFromRange: position of the while loop
    reqStack,       \* txsFromRange: the closures pushed onto reqStack
    result,         \* txsFromRange: block numbers whose transactions are in result
    fetch           \* the last fetchAndSaveBlock call

listenerVars ==
    <<listening, inSync, blockQueue, latestBlocks, startBlocks, emitted, loop,
      currentProcess, calls, detach>>

storeVars == <<kv, docs, mutable, readOnly, newDb, warmDb, op, nops>>

errorVars == <<lastError, rejected, hasReject>>

\* the variables of the parts that neither the listener nor the store touches
stagingVars == <<staging, disk, cleanup>>

rangeVars == <<from, to, rangePc, reqStack, result, fetch>>

auxVars == <<errorVars, stagingVars, rx, rangeVars>>

vars == <<listenerVars, storeVars, auxVars>>

\* ------------------------------------------------------------------------
\* The block queue
\* ------------------------------------------------------------------------
\* a queue entry; its asyncParts future is settled when the dispatcher awaits it
Entry(c, n) == [chainId |-> c, number |-> n]

\* numbers start+1 .. end as queue entries in ascending order
RECURSIVE RecordRange(_, _, _)
RecordRange(c, start, end) ==
    IF start >= end THEN <<>>
    ELSE <<Entry(c, start + 1)>> \o RecordRange(c, start + 1, end)

\* recordListenerBlock: the entry is pushed onto the end of the queue
recordListenerBlock(q, c, n) == Append(q, Entry(c, n))

\* restackListenerBlock: blockQueue.splice(0, 0, entry)
restackListenerBlock(q, c, n) == <<Entry(c, n)>> \o q

\* the gap fill of attemptNextBlock: one recordListenerBlock call for every
\* number from latest + 1 up to the head's own number, none of them awaited
GapFill(q, latest) ==
    IF q[1].number - latest > 1
    THEN RecordRange(q[1].chainId, latest, q[1].number)
    ELSE <<>>

\* the skip guard of processListenerBlockSafely
ShouldProcess(c, n) ==
    /\ startBlocks[c] # 0
    /\ n >= startBlocks[c]
    /\ n >= latestBlocks[c]

\* processListenerBlock completing: the engine's last-processed block advances
processListenerBlockDone(lb, c, n) == [lb EXCEPT ![c] = n]

\* ------------------------------------------------------------------------
\* Initial state: listeners attached, nothing queued
\* ------------------------------------------------------------------------
ListenerInit ==
    /\ listening = TRUE
    /\ inSync \in BOOLEAN
    /\ blockQueue = <<>>
    /\ latestBlocks = [c \in Chains |-> InitLatest]
    /\ startBlocks \in [Chains -> {0, 1}]
    /\ emitted = [c \in Chains |-> InitLatest]
    /\ loop = "idle"
    /\ currentProcess = 0
    /\ calls = <<>>
    /\ detach = [c \in Chains |-> "attached"]

\* ------------------------------------------------------------------------
\* Listener
\* ------------------------------------------------------------------------
\* the callback of createListener for a newly observed block number
ListenerBlock(c, n) ==
    /\ listening
    /\ detach[c] = "attached"
    /\ n > emitted[c]
    /\ Len(blockQueue) < MaxQueue
    /\ emitted' = [emitted EXCEPT ![c] = n]
    /\ blockQueue' = recordListenerBlock(blockQueue, c, n)
    /\ UNCHANGED <<listening, inSync, latestBlocks, startBlocks, loop,
                   currentProcess, calls, detach, storeVars, auxVars>>

\* the historical sync completes and hands over to the listener
SetInSync ==
    /\ ~inSync
    /\ inSync' = TRUE
    /\ UNCHANGED <<listening, blockQueue, latestBlocks, startBlocks, emitted,
                   loop, currentProcess, calls, detach, storeVars, auxVars>>

\* the caller closes the listeners
StopListening ==
    /\ listening
    /\ listening' = FALSE
    /\ UNCHANGED <<inSync, blockQueue, latestBlocks, startBlocks, emitted, loop,
                   currentProcess, calls, detach, storeVars, auxVars>>

\* ------------------------------------------------------------------------
\* Dispatcher
\* ------------------------------------------------------------------------
NewCall(c, n, parts) ==
    [chainId |-> c, number |-> n, parts |-> parts, timer |-> "armed",
     cancelled |-> FALSE, handler |-> "running", raceDone |-> FALSE]

\* the queue once attemptNextBlock has spliced the head off and the pushes of
\* its gap fill (each behind an await) have landed
AfterSplice(q, latest) == Tail(q) \o GapFill(q, latest)

\* a loop that takes blocks before the historical sync has completed
TakesBlockUnsynced == blockQueue # <<>>

\* the test of the dispatcher loop: blockQueue.length && state.inSync
TakesBlock == blockQueue # <<>> /\ inSync

\* one pass of the dispatcher loop that finds a block to attempt
AttemptNextBlock ==
    /\ loop = "idle"
    /\ listening
    /\ TakesBlock
    /\ LET head == blockQueue[1]
           c == head.chainId
           q == AfterSplice(blockQueue, latestBlocks[c])
       IN /\ Len(q) <= MaxQueue + MaxBlock
          /\ blockQueue' = q
          /\ IF ~ShouldProcess(c, head.number)
             THEN \* processListenerBlockSafely is a no-op
                  UNCHANGED <<loop, currentProcess, calls>>
             ELSE \/ \* asyncParts rejects: the loop's catch ends the loop
                     /\ loop' = "stopped"
                     /\ UNCHANGED <<currentProcess, calls>>
                  \/ \* the reader is obtained and both arms of the race start
                     /\ Len(calls) < MaxCalls
                     /\ \E parts \in {"ok", "empty"} :
                            calls' = Append(calls, NewCall(c, head.number, parts))
                     /\ currentProcess' = Len(calls) + 1
                     /\ loop' = "awaiting"
    /\ UNCHANGED <<listening, inSync, latestBlocks, startBlocks, emitted,
                   detach, storeVars, auxVars>>

\* the dispatcher resumes when the call it awaits settles
Resume(i) == IF loop = "awaiting" /\ currentProcess = i THEN "idle" ELSE loop

\* processing arm: processListenerBlock returns
HandlerReturns(i) ==
    /\ i \in 1..Len(calls)
    /\ calls[i].handler = "running"
    /\ calls[i].parts = "ok"
    /\ LET call == calls[i] IN
       /\ latestBlocks' =
              processListenerBlockDone(latestBlocks, call.chainId, call.number)
       /\ calls' = [calls EXCEPT ![i].handler = "ok",
                                 ![i].timer =
                                     IF call.timer = "armed" THEN "cleared"
                                     ELSE call.timer,
                                 ![i].raceDone = TRUE]
       /\ blockQueue' =
              IF call.cancelled
              THEN restackListenerBlock(blockQueue, call.chainId, call.number)
              ELSE blockQueue
    /\ loop' = Resume(i)
    /\ UNCHANGED <<listening, inSync, startBlocks, emitted, currentProcess,
                   detach, storeVars, auxVars>>

\* processing arm: processListenerBlock throws
HandlerThrows(i) ==
    /\ i \in 1..Len(calls)
    /\ calls[i].handler = "running"
    /\ calls' = [calls EXCEPT ![i].handler = "thrown", ![i].raceDone = TRUE]
    /\ blockQueue' =
           restackListenerBlock(blockQueue, calls[i].chainId, calls[i].number)
    /\ loop' = Resume(i)
    /\ UNCHANGED <<listening, inSync, latestBlocks, startBlocks, emitted,
                   currentProcess, detach, storeVars, auxVars>>

\* timeout arm: the timer of cancelListenerBlockAfterTimeout fires while the
\* handler is still running and cancelOp runs
TimerFires(i) ==
    /\ i \in 1..Len(calls)
    /\ calls[i].handler = "running"
    /\ calls[i].timer = "armed"
    /\ IF calls[i].parts = "ok"
       THEN \* the race is resolved; the flag is set on the parts when the
            \* staged read has resolved, and on the object of cancelReadWait
            \* when the read is still pending ten seconds later
            /\ \E resolved \in BOOLEAN :
                   calls' = [calls EXCEPT ![i].timer = "fired",
                                          ![i].cancelled = resolved,
                                          ![i].raceDone = TRUE]
            /\ loop' = Resume(i)
       ELSE \* the reader gave false: the assignment throws, resolve is not called
            /\ calls' = [calls EXCEPT ![i].timer = "fired"]
            /\ UNCHANGED loop
    /\ UNCHANGED <<listening, inSync, blockQueue, latestBlocks, startBlocks,
                   emitted, currentProcess, detach, storeVars, auxVars>>

\* the call the engine records as currentProcess has settled, or there is none
CurrentProcessSettled ==
    IF currentProcess = 0 THEN TRUE ELSE calls[currentProcess].raceDone

\* detach of chain c is called: the error and the block listener are taken
\* off the provider, then engine.currentProcess is awaited
DetachStart(c) ==
    /\ detach[c] = "attached"
    /\ detach' = [detach EXCEPT ![c] = "unsubscribed"]
    /\ UNCHANGED <<listening, inSync, blockQueue, latestBlocks, startBlocks,
                   emitted, loop, currentProcess, calls, storeVars, auxVars>>

\* a detach that releases the lock without waiting for the current process
DetachFinishNoAwait(c) ==
    /\ detach[c] = "unsubscribed"
    /\ detach' = [detach EXCEPT ![c] = "released"]
    /\ UNCHANGED <<listening, inSync, blockQueue, latestBlocks, startBlocks,
                   emitted, loop, currentProcess, calls, storeVars, auxVars>>

\* detach of chain c resumes after its await: the lock of latestEntity is
\* released and saved
DetachFinish(c) ==
    /\ detach[c] = "unsubscribed"
    /\ CurrentProcessSettled
    /\ detach' = [detach EXCEPT ![c] = "released"]
    /\ UNCHANGED <<listening, inSync, blockQueue, latestBlocks, startBlocks,
                   emitted, loop, currentProcess, calls, storeVars, auxVars>>

\* the while (state.listening) loop ends
LoopExit ==
    /\ loop = "idle"
    /\ ~listening
    /\ loop' = "stopped"
    /\ UNCHANGED <<listening, inSync, blockQueue, latestBlocks, startBlocks,
                   emitted, currentProcess, calls, detach, storeVars, auxVars>>

\* ------------------------------------------------------------------------
\* Provider error handler
\* ------------------------------------------------------------------------
\* rejections recorded before the model stops taking propagated errors
MaxRejects == 1

\* error.code of the errors a provider emits: the codes the handler names, one
\* other ethers code, and an error that carries no code
ErrorCodes ==
    {"NETWORK_ERROR", "SERVER_ERROR", "UNSUPPORTED_OPERATION", "TIMEOUT",
     "CALL_EXCEPTION", "undefined"}

\* a handler that also propagates timeouts
PropagatesTimeout(code) ==
    code \in {"NETWORK_ERROR", "SERVER_ERROR", "UNSUPPORTED_OPERATION",
              "TIMEOUT"}

\* the cases of the switch that reach errorHandlers.reject
Propagates(code) ==
    code \in {"NETWORK_ERROR", "SERVER_ERROR", "UNSUPPORTED_OPERATION"}

\* the handler of createErrorHandler is called with an error of this code
ProviderError(code) ==
    /\ lastError' = code
    /\ IF Propagates(code) /\ hasReject
       THEN /\ Len(rejected) < MaxRejects
            /\ rejected' = Append(rejected, code)
       ELSE UNCHANGED rejected
    /\ UNCHANGED <<hasReject, listenerVars, storeVars, stagingVars, rx,
                   rangeVars>>

\* no error handled yet
ErrorInit ==
    /\ lastError = "none"
    /\ rejected = <<>>
    /\ hasReject \in BOOLEAN

\* ------------------------------------------------------------------------
\* Staging of a block and its receipts
\* ------------------------------------------------------------------------
\* queue entries whose staging the model follows
MaxEntries == 2

\* the callers that create a queue entry
EntrySources == {"listener", "gap", "restack"}

\* the file saveJSON writes for a kind of artefact of block n of chain c
Artefact(kind, c, n) == <<kind, c, n>>

\* a chain that hands out the reader once the block and receipts are fetched
StageStepUnsaved(pc) ==
    CASE pc = "block" -> "receipts"
      [] pc = "receipts" -> "resolved"
      [] OTHER -> pc

\* the awaits of awaitListenerBlockAndReceipts in order, followed by the
\* then() of the entry's asyncParts: the position after the pending one
StageStep(pc) ==
    CASE pc = "block" -> "receipts"
      [] pc = "receipts" -> IF cleanup THEN "combined" ELSE "blocks"
      [] pc = "blocks" -> "combined"
      [] pc = "combined" -> "resolved"
      [] OTHER -> pc

\* the artefacts on disk once the pending await of a staging has completed
Written(st) ==
    CASE st.pc = "blocks" -> {Artefact("blocks", st.chainId, st.number)}
      [] st.pc = "combined" ->
             {Artefact("blockAndReceipts", st.chainId, st.number)}
      [] OTHER -> {}

\* recordListenerBlock or restackListenerBlock creates an entry: its
\* asyncParts is saveListenerBlockAndReceipts(number, chainId).then(reader)
RecordEntry(by, c, n) ==
    /\ Len(staging) < MaxEntries
    /\ staging' = Append(staging, [chainId |-> c, number |-> n, by |-> by,
                                   pc |-> "block", read |-> "none"])
    /\ UNCHANGED <<disk, cleanup, listenerVars, storeVars, errorVars,
                   rx, rangeVars>>

\* the await a staging is pending on completes
StageAdvance(i) ==
    /\ i \in 1..Len(staging)
    /\ staging[i].pc \in {"block", "receipts", "blocks", "combined"}
    /\ disk' = disk \cup Written(staging[i])
    /\ staging' = [staging EXCEPT ![i].pc = StageStep(staging[i].pc)]
    /\ UNCHANGED <<cleanup, listenerVars, storeVars, errorVars,
                   rx, rangeVars>>

\* getBlockByNumber or a saveJSON of awaitListenerBlockAndReceipts rejects
\* (getReceipt retries and never rejects): asyncParts rejects
StageFails(i) ==
    /\ i \in 1..Len(staging)
    /\ staging[i].pc \in {"block", "blocks", "combined"}
    /\ staging' = [staging EXCEPT ![i].pc = "rejected"]
    /\ UNCHANGED <<disk, cleanup, listenerVars, storeVars, errorVars,
                   rx, rangeVars>>

\* processListenerBlockSafely has awaited asyncParts and invokes the reader:
\* readListenerBlockAndReceipts gives the artefact, or false when readJSON
\* throws
ReaderInvoked(i) ==
    /\ i \in 1..Len(staging)
    /\ staging[i].pc = "resolved"
    /\ staging[i].read = "none"
    /\ \E r \in {"parts", "false"} :
           /\ r = "parts" =>
                  Artefact("blockAndReceipts", staging[i].chainId,
                           staging[i].number) \in disk
           /\ staging' = [staging EXCEPT ![i].read = r]
    /\ UNCHANGED <<disk, cleanup, listenerVars, storeVars, errorVars,
                   rx, rangeVars>>

\* no entry created, nothing staged
StagingInit ==
    /\ staging = <<>>
    /\ disk = {}
    /\ cleanup \in BOOLEAN

\* ------------------------------------------------------------------------
\* Fetch layer: getTransactionReceipt
\* ------------------------------------------------------------------------
\* attempts of one call the model follows
MaxAttempts == 3

\* transaction hashes; "" stands for a missing or empty hash
Hashes == {"0xa", "0xb"}

\* the txHash argument: a hash string or a TransactionResponse
TxArgs ==
    [kind : {"hash"}, hash : Hashes] \cup
    [kind : {"response"}, hash : Hashes \cup {""}]

\* what provider.send("eth_getTransactionByHash", [txHash]) can give: an
\* exception, null, or a response that carries the hash asked for or none
TxAnswers(arg) ==
    {[throws |-> TRUE, value |-> <<>>], [throws |-> FALSE, value |-> <<>>]}
    \cup IF arg.kind = "hash"
         THEN {[throws |-> FALSE,
                value |-> <<[hash |-> h, blockNumber |-> "pending"]>>] :
                   h \in {arg.hash, ""}}
         ELSE {}

\* what provider.send("eth_getTransactionReceipt", [hash]) can give: an
\* exception, null, a receipt without transactionHash, or the receipt of hash
ReceiptAnswers(hash) ==
    {[throws |-> TRUE, value |-> <<>>], [throws |-> FALSE, value |-> <<>>]}
    \cup {[throws |-> FALSE,
           value |-> <<[transactionHash |-> h, blockNumber |-> "mined"]>>] :
              h \in {hash, ""}}

\* the object spread {...tx, ...receipt}: the receipt's fields win
Merge(tx, receipt) ==
    [k \in DOMAIN tx \cup DOMAIN receipt |->
        IF k \in DOMAIN receipt THEN receipt[k] ELSE tx[k]]

\* the start of attempt n for an argument: a response that carries a hash is
\* used as given, anything else is fetched by hash first
Attempt(arg, n) ==
    [pc |-> IF arg.kind = "response" /\ arg.hash # "" THEN "receipt" ELSE "tx",
     arg |-> arg,
     tx |-> IF arg.kind = "response" /\ arg.hash # ""
            THEN <<[hash |-> arg.hash, blockNumber |-> "pending"]>>
            ELSE <<>>,
     attempts |-> n,
     answer |-> <<>>,
     result |-> <<>>,
     caller |-> <<>>,
     outer |-> 0]

\* a call whose failures reach the caller
Uncaught(r, a) == [r EXCEPT !.pc = "rejected", !.answer = <<a>>]

\* the catch block: the call is made again with the same argument
Caught(r, a) ==
    [Attempt(r.arg, r.attempts + 1) EXCEPT !.answer = <<a>>,
                                           !.caller = r.caller,
                                           !.outer = r.outer]

\* getTransactionReceipt(provider, txHash) is called
ReceiptCall(arg) ==
    /\ rx.pc = "idle"
    /\ rx' = Attempt(arg, 1)
    /\ UNCHANGED <<listenerVars, storeVars, errorVars, stagingVars, rangeVars>>

\* the request by hash settles; reading tx.hash of null throws
TxAnswer(a) ==
    /\ rx.pc = "tx"
    /\ a \in TxAnswers(rx.arg)
    /\ IF a.throws \/ a.value = <<>>
       THEN /\ rx.attempts < MaxAttempts
            /\ rx' = Caught(rx, a)
       ELSE rx' = [rx EXCEPT !.pc = "receipt", !.tx = a.value,
                             !.answer = <<a>>]
    /\ UNCHANGED <<listenerVars, storeVars, errorVars, stagingVars, rangeVars>>

\* the receipt request settles: the merged response and receipt is returned
\* when both carry a hash, otherwise "No tx response" is thrown and caught
ReceiptAnswer(a) ==
    /\ rx.pc = "receipt"
    /\ a \in ReceiptAnswers(rx.tx[1].hash)
    /\ IF \/ a.throws
          \/ a.value = <<>>
          \/ a.value[1].transactionHash = ""
          \/ rx.tx[1].hash = ""
       THEN /\ rx.attempts < MaxAttempts
            /\ rx' = Caught(rx, a)
       ELSE rx' = [rx EXCEPT !.pc = "returned", !.answer = <<a>>,
                             !.result = <<Merge(rx.tx[1], a.value[1])>>]
    /\ UNCHANGED <<listenerVars, storeVars, errorVars, stagingVars, rangeVars>>

\* getReceipt(tx, chainId, provider) is called for a transaction of a block
\* and calls getTransactionReceipt(provider, tx)
GetReceiptCall(c, arg) ==
    /\ rx.pc = "idle"
    /\ arg.kind = "response"
    /\ rx' = [Attempt(arg, 1) EXCEPT !.caller = <<c>>, !.outer = 1]
    /\ UNCHANGED <<listenerVars, storeVars, errorVars, stagingVars, rangeVars>>

\* getReceipt resumes with the full transaction: unless cleanup is set it is
\* saved to disk, and a save that rejects makes getReceipt start again
GetReceiptSave(saved) ==
    /\ rx.pc = "returned"
    /\ rx.caller # <<>>
    /\ IF rx.result[1].transactionHash = "" \/ (~cleanup /\ ~saved)
       THEN /\ rx.outer < MaxAttempts
            /\ rx' = [Attempt(rx.arg, 1) EXCEPT !.caller = rx.caller,
                                                !.outer = rx.outer + 1]
            /\ UNCHANGED disk
       ELSE /\ rx' = [rx EXCEPT !.pc = "done"]
            /\ disk' = IF cleanup THEN disk
                       ELSE disk \cup {Artefact("transactions", rx.caller[1],
                                                rx.result[1].transactionHash)}
    /\ UNCHANGED <<staging, cleanup, listenerVars, storeVars, errorVars,
                   rangeVars>>

\* no call made yet
ReceiptInit ==
    rx = [pc |-> "idle", arg |-> [kind |-> "hash", hash |-> ""], tx |-> <<>>,
          attempts |-> 0, answer |-> <<>>, result |-> <<>>, caller |-> <<>>,
          outer |-> 0]

\* ------------------------------------------------------------------------
\* Fetch layer: txsFromRange
\* ------------------------------------------------------------------------
\* the closure retry(attempts) pushes: () => fetchAndSaveBlock(from).catch(
\* retry(attempts + 1)). It holds the variable from, not a block number; the
\* field failed only records the block whose failed fetch led to it
RetryClosure(attempts, failed) == [attempts |-> attempts, failed |-> failed]

\* fetchAndSaveBlock(number) settles: on success the block's transactions are
\* added to result, on failure the handler of retry(attempts) pushes a closure
FetchAndSaveBlock(number, ok, stack, attempts, failed) ==
    /\ fetch' = [number |-> number, ok |-> ok, attempts |-> attempts,
                 retryOf |-> IF attempts > 1 THEN failed ELSE 0]
    /\ result' = IF ok THEN result \cup {number} ELSE result
    /\ reqStack' = IF ok THEN stack
                   ELSE Append(stack, RetryClosure(attempts, failed))

\* one pass of while (from <= to) whose disk read rejects or is a hit without
\* transactions: doFetch runs and the promise of block from settles
LoopFetch(ok) ==
    /\ rangePc = "loop"
    /\ from <= to
    /\ FetchAndSaveBlock(from, ok, reqStack, 1, from)
    /\ rangePc' = "settled"
    /\ UNCHANGED <<from, to, listenerVars, storeVars, errorVars, stagingVars,
                   rx>>

\* one pass whose disk read is a hit with transactions: the hashes are added
\* to result from the cached block and the promise resolves without a fetch
LoopHit ==
    /\ rangePc = "loop"
    /\ from <= to
    /\ result' = result \cup {from}
    /\ rangePc' = "settled"
    /\ UNCHANGED <<from, to, reqStack, fetch, listenerVars, storeVars,
                   errorVars, stagingVars, rx>>

\* one pass whose disk read resolves with no data: if (data) has no else, so
\* neither resolve nor reject is ever called and the pass stays pending
LoopNoData ==
    /\ rangePc = "loop"
    /\ from <= to
    /\ rangePc' = "pending"
    /\ UNCHANGED <<from, to, reqStack, result, fetch, listenerVars, storeVars,
                   errorVars, stagingVars, rx>>

\* the await of the pass resumes: from += 1
LoopAdvance ==
    /\ rangePc = "settled"
    /\ from' = from + 1
    /\ rangePc' = IF from + 1 <= to THEN "loop" ELSE "done"
    /\ UNCHANGED <<to, reqStack, result, fetch, listenerVars, storeVars,
                   errorVars, stagingVars, rx>>

\* the consumer of reqStack takes a closure and runs it: fetchAndSaveBlock is
\* called with the value from has now
RunRetry(i, ok) ==
    /\ i \in 1..Len(reqStack)
    /\ reqStack[i].attempts < MaxAttempts
    /\ FetchAndSaveBlock(from, ok,
                         SubSeq(reqStack, 1, i - 1)
                             \o SubSeq(reqStack, i + 1, Len(reqStack)),
                         reqStack[i].attempts + 1, reqStack[i].failed)
    /\ UNCHANGED <<from, to, rangePc, listenerVars, storeVars, errorVars,
                   stagingVars, rx>>

\* txsFromRange is called for a range [from, to]
RangeInit ==
    /\ from \in 1..MaxBlock
    /\ to \in from..MaxBlock
    /\ rangePc = "loop"
    /\ reqStack = <<>>
    /\ result = {}
    /\ fetch = [number |-> 0, ok |-> TRUE, attempts |-> 0, retryOf |-> 0]

\* txsFromRange while another specification runs
RangeQuiet ==
    /\ from = 1 /\ to = 0
    /\ rangePc = "done"
    /\ reqStack = <<>>
    /\ result = {}
    /\ fetch = [number |-> 0, ok |-> TRUE, attempts |-> 0, retryOf |-> 0]

\* ------------------------------------------------------------------------
\* Store adapter (Mongo): values, collections and the hot cache
\* ------------------------------------------------------------------------
\* most single operations (a put, a del, an entry of a batch) in one behaviour
MaxOps == 2
\* page size of the materialised view; the source pages by 5000, scaled here
\* so that a view of two ids spans two pages
batchSize == 1

Refs == {"c", "__meta__"}
Ids == {"id1", "id2"}

\* the values written: entity versions of collection c, cursor records of __meta__
Values ==
    [id : Ids, _block_ts : {1, 2}, _block_num : {1}, _chain_id : {1},
     data : {"v1", "v2"}]
ValuesOf(ref) ==
    IF ref = "__meta__"
    THEN {v \in Values : v.id = "id1" /\ v.data = "v1"}
    ELSE Values

\* a map with no keys
EmptyMap == [x \in {} |-> x]

\* this.kv[ref] = this.kv[ref] || {}
CacheEnsure(k, ref) ==
    IF ref \in DOMAIN k THEN k
    ELSE [r \in DOMAIN k \cup {ref} |-> IF r = ref THEN EmptyMap ELSE k[r]]

\* this.kv[ref][id] = val
CacheSet(k, ref, id, v) ==
    LET e == CacheEnsure(k, ref) IN
    [e EXCEPT ![ref] =
        [i \in DOMAIN e[ref] \cup {id} |-> IF i = id THEN v ELSE e[ref][i]]]

\* delete this.kv[ref][id]
CacheDel(k, ref, id) ==
    LET e == CacheEnsure(k, ref) IN
    [e EXCEPT ![ref] = [i \in DOMAIN e[ref] \ {id} |-> e[ref][i]]]

\* this.kv[ref]?.[id] holds a value
Cached(k, ref, id) == ref \in DOMAIN k /\ id \in DOMAIN k[ref]

\* a filter that gives __meta__ no special treatment
MatchesNoMeta(ref, v, d) ==
    /\ d.id = v.id
    /\ \/ mutable
       \/ /\ d._block_ts = v._block_ts
          /\ d._block_num = v._block_num
          /\ d._chain_id = v._chain_id

\* a filter that leaves the block fields out in every mode
MatchesIdOnly(ref, v, d) == d.id = v.id

\* the filter of a put's replaceOne: by id alone for a mutable collection and
\* for __meta__, by id and the block fields otherwise
Matches(ref, v, d) ==
    /\ d.id = v.id
    /\ \/ mutable
       \/ ref = "__meta__"
       \/ /\ d._block_ts = v._block_ts
          /\ d._block_num = v._block_num
          /\ d._chain_id = v._chain_id

SetMin(S) == CHOOSE x \in S : \A y \in S : x <= y
SetMax(S) == CHOOSE x \in S : \A y \in S : x >= y

\* an insert in place of the upsert
InsertOne(coll, ref, v) == Append(coll, v)

\* collection.replaceOne(filter, val, {upsert: true})
ReplaceOne(coll, ref, v) ==
    LET hits == {i \in 1..Len(coll) : Matches(ref, v, coll[i])} IN
    IF hits = {} THEN Append(coll, v)
    ELSE [coll EXCEPT ![SetMin(hits)] = v]

\* the collection without its i-th document
RemoveAt(coll, i) ==
    [j \in 1..(Len(coll) - 1) |-> IF j < i THEN coll[j] ELSE coll[j + 1]]

\* del: collection.deleteOne(document), where document is the promise of the
\* findOne that was not awaited; it serialises as the empty filter, so one
\* document of the collection goes, whatever its id
DeleteOne(coll, id) ==
    IF coll = <<>> THEN {coll}
    ELSE {RemoveAt(coll, i) : i \in 1..Len(coll)}

\* deleteMany({id})
DeleteMany(coll, id) == SelectSeq(coll, LAMBDA d : d.id # id)

\* ------------------------------------------------------------------------
\* Store adapter: single operations and batches
\* ------------------------------------------------------------------------
PutOp(ref, v) == [type |-> "put", ref |-> ref, id |-> v.id, value |-> <<v>>]
DelOp(ref, id) == [type |-> "del", ref |-> ref, id |-> id, value |-> <<>>]

SingleOps ==
    {PutOp(ref, v) : ref \in Refs, v \in Values} \cup
    {DelOp(ref, id) : ref \in Refs, id \in Ids}

\* the operations a caller issues
InputOps ==
    UNION {{PutOp(ref, v) : v \in ValuesOf(ref)} : ref \in Refs} \cup
    {DelOp("c", id) : id \in Ids} \cup {DelOp("__meta__", "id1")}

\* one operation of a bulk write applied to a collection
ApplyBulkOp(coll, ref, o) ==
    IF o.type = "put" THEN ReplaceOne(coll, ref, o.value[1])
    ELSE DeleteMany(coll, o.id)

\* bulkWrite(batch, {ordered: false}): the operations left (todo) are applied
\* in any order
RECURSIVE BulkWrite(_, _, _, _)
BulkWrite(coll, ref, os, todo) ==
    IF todo = {} THEN {coll}
    ELSE UNION {BulkWrite(ApplyBulkOp(coll, ref, os[i]), ref, os, todo \ {i})
                : i \in todo}

\* the cache updates made while the bulk operations of one collection are built
RECURSIVE CacheBatch(_, _)
CacheBatch(k, os) ==
    IF os = <<>> THEN k
    ELSE LET o == Head(os)
             k1 == IF o.type = "put"
                   THEN CacheSet(k, o.ref, o.id, o.value[1])
                   ELSE CacheDel(k, o.ref, o.id)
         IN CacheBatch(k1, Tail(os))

\* byCollection: the refs of a batch in order of first appearance
RECURSIVE RefOrder(_, _)
RefOrder(os, seen) ==
    IF os = <<>> THEN <<>>
    ELSE IF Head(os).ref \in seen THEN RefOrder(Tail(os), seen)
    ELSE <<Head(os).ref>> \o RefOrder(Tail(os), seen \cup {Head(os).ref})

\* byCollection[ref]: the operations of a batch on one collection, in order
GroupOf(os, ref) == SelectSeq(os, LAMBDA o : o.ref = ref)

\* the cache once the collections from position g on have been assembled
RECURSIVE CacheGroups(_, _, _)
CacheGroups(k, os, g) ==
    LET order == RefOrder(os, {}) IN
    IF g > Len(order) THEN k
    ELSE CacheGroups(CacheBatch(k, GroupOf(os, order[g])), os, g + 1)

\* byCollection: this.kv[ref] = this.kv[ref] || {} for every collected
\* operation, before any collection is assembled
RECURSIVE ByCollection(_, _)
ByCollection(k, os) ==
    IF os = <<>> THEN k
    ELSE ByCollection(CacheEnsure(k, Head(os).ref), Tail(os))

\* the call record: what was called (ops), whether its durable write is
\* issued (write), the collection a batch has reached (pc), the operations
\* of the call before it (prev) and the collections whose durable write was
\* rejected, which makes the call reject (failed)
NoOp == [kind |-> "none", phase |-> "done", ops |-> <<>>, write |-> FALSE,
         pc |-> 0, prev |-> <<>>, failed |-> {}]

\* the collection c of a database that was written by earlier runs
Version(id, ts) ==
    [id |-> id, _block_ts |-> ts, _block_num |-> 1, _chain_id |-> 1,
     data |-> "v1"]
SeedDocs ==
    IF mutable
    THEN {<<>>, <<Version("id1", 1), Version("id2", 1)>>}
    ELSE {<<>>, <<Version("id1", 1), Version("id1", 2), Version("id2", 1)>>}

\* the durable write issued whatever engine.readOnly says
AlwaysWrite == TRUE

\* if (!this.engine.readOnly): the durable write is issued
ShouldWrite == ~readOnly

\* ------------------------------------------------------------------------
\* Store adapter: the bulk write a batch assembles
\* ------------------------------------------------------------------------
\* a value as a caller passes it: it may carry an _id ("none": no such key)
RawValue(v, oid) ==
    [id |-> v.id, _block_ts |-> v._block_ts, _block_num |-> v._block_num,
     _chain_id |-> v._chain_id, data |-> v.data, _id |-> oid]

RawPut(ref, raw) == [type |-> "put", ref |-> ref, id |-> raw.id, value |-> <<raw>>]

\* a put that carries no value
RawPutNoValue(ref, id) == [type |-> "put", ref |-> ref, id |-> id, value |-> <<>>]

\* if (val.type === "del" || val?.value): the operation is collected
Effective(o) == o.type = "del" \/ o.value # <<>>

\* byCollection[ref]: the collected operations of a collection, in input order
Collected(os, ref) == SelectSeq(os, LAMBDA o : o.ref = ref /\ Effective(o))

\* replacement: every key of the value but _id, then the three block fields
Replacement(val) ==
    [id |-> val.id, data |-> val.data, _block_ts |-> val._block_ts,
     _block_num |-> val._block_num, _chain_id |-> val._chain_id]

\* a filter on id alone, whatever the collection
FilterIdOnly(ref, id, val) == [id |-> id, block |-> <<>>]

\* the filter of a batch put: {id}, with the block fields of the value unless
\* the adapter is mutable or the collection is __meta__
FilterOf(ref, id, val) ==
    IF mutable \/ ref = "__meta__"
    THEN [id |-> id, block |-> <<>>]
    ELSE [id |-> id,
          block |-> <<val._block_ts, val._block_num, val._chain_id>>]

\* the bulk operation pushed for one collected operation
BulkOpOf(ref, o) ==
    IF o.type = "put"
    THEN [name |-> "replaceOne", filter |-> FilterOf(ref, o.id, o.value[1]),
          replacement |-> <<Replacement(o.value[1])>>, upsert |-> TRUE]
    ELSE [name |-> "deleteMany", filter |-> [id |-> o.id, block |-> <<>>],
          replacement |-> <<>>, upsert |-> FALSE]

\* batch: the operations array built for a collection
BulkOpsOf(os, ref) ==
    LET group == Collected(os, ref) IN
    [i \in 1..Len(group) |-> BulkOpOf(ref, group[i])]

\* the bulkWrite calls of batch(os) from collection g on, when every one is
\* fulfilled: none for a collection with an empty array
RECURSIVE BulkWriteCallsFrom(_, _)
BulkWriteCallsFrom(os, g) ==
    LET order == RefOrder(os, {}) IN
    IF g > Len(order) THEN <<>>
    ELSE LET batch == BulkOpsOf(os, order[g]) IN
         (IF ShouldWrite /\ Len(batch) > 0
          THEN <<[collection |-> order[g], operations |-> batch,
                  ordered |-> FALSE, forceServerObjectId |-> TRUE]>>
          ELSE <<>>) \o BulkWriteCallsFrom(os, g + 1)

BulkWriteCalls(os) == BulkWriteCallsFrom(os, 1)

\* a document matches a filter of the database
FilterMatches(f, d) ==
    /\ d.id = f.id
    /\ f.block = <<>> \/ f.block = <<d._block_ts, d._block_num, d._chain_id>>

\* the database applies one operation of a bulk write
ApplyPayloadOp(coll, b) ==
    IF b.name = "replaceOne"
    THEN LET hits == {i \in 1..Len(coll) : FilterMatches(b.filter, coll[i])} IN
         IF hits = {} THEN Append(coll, b.replacement[1])
         ELSE [coll EXCEPT ![SetMin(hits)] = b.replacement[1]]
    ELSE SelectSeq(coll, LAMBDA d : ~FilterMatches(b.filter, d))

\* the database applies the operations todo of a bulk write in any order
RECURSIVE ApplyPayload(_, _, _)
ApplyPayload(coll, batch, todo) ==
    IF todo = {} THEN {coll}
    ELSE UNION {ApplyPayload(ApplyPayloadOp(coll, batch[i]), batch, todo \ {i})
                : i \in todo}

\* a fresh adapter (empty hot cache) on a new or an existing database
StoreInit ==
    /\ kv = EmptyMap
    /\ mutable \in BOOLEAN
    /\ \E seed \in SeedDocs : docs = [r \in Refs |-> IF r = "c" THEN seed ELSE <<>>]
    /\ readOnly \in BOOLEAN
    /\ newDb \in BOOLEAN
    /\ warmDb \in BOOLEAN
    /\ op = NoOp
    /\ nops = 0

\* put(key, val) up to its await: the cache is written, then readOnly is read
PutStart(ref, v) ==
    /\ op.phase = "done"
    /\ nops < MaxOps
    /\ kv' = CacheSet(kv, ref, v.id, v)
    /\ op' = [kind |-> "put", phase |-> "started", ops |-> <<PutOp(ref, v)>>,
              write |-> ShouldWrite, pc |-> 1, prev |-> op.ops,
              failed |-> {}]
    /\ nops' = nops + 1
    /\ UNCHANGED <<docs, mutable, readOnly, newDb, warmDb, listenerVars, auxVars>>

\* put: the replaceOne is applied and the call returns
PutFinish ==
    /\ op.kind = "put"
    /\ op.phase = "started"
    /\ LET o == op.ops[1] IN
       docs' = IF op.write
               THEN [docs EXCEPT ![o.ref] = ReplaceOne(docs[o.ref], o.ref, o.value[1])]
               ELSE docs
    /\ op' = [op EXCEPT !.phase = "done"]
    /\ UNCHANGED <<kv, mutable, readOnly, newDb, warmDb, nops, listenerVars, auxVars>>

\* del(key) up to its await
DelStart(ref, id) ==
    /\ op.phase = "done"
    /\ nops < MaxOps
    /\ kv' = CacheDel(kv, ref, id)
    /\ op' = [kind |-> "del", phase |-> "started", ops |-> <<DelOp(ref, id)>>,
              write |-> ShouldWrite, pc |-> 1, prev |-> op.ops,
              failed |-> {}]
    /\ nops' = nops + 1
    /\ UNCHANGED <<docs, mutable, readOnly, newDb, warmDb, listenerVars, auxVars>>

\* del: the deleteOne is applied and the call returns
DelFinish ==
    /\ op.kind = "del"
    /\ op.phase = "started"
    /\ LET o == op.ops[1] IN
       IF op.write
       THEN \E coll \in DeleteOne(docs[o.ref], o.id) :
                docs' = [docs EXCEPT ![o.ref] = coll]
       ELSE docs' = docs
    /\ op' = [op EXCEPT !.phase = "done"]
    /\ UNCHANGED <<kv, mutable, readOnly, newDb, warmDb, nops, listenerVars, auxVars>>

\* the loop of batch from collection g on, up to its next await: in readOnly
\* mode no bulk write is issued and the loop runs through
BatchAdvance(os, g, prev) ==
    LET order == RefOrder(os, {}) IN
    IF g > Len(order)
    THEN /\ kv' = kv
         /\ op' = [op EXCEPT !.pc = g, !.write = FALSE]
    ELSE IF ~ShouldWrite
    THEN /\ kv' = CacheGroups(ByCollection(kv, os), os, g)
         /\ op' = [kind |-> "batch", phase |-> "started", ops |-> os,
                   write |-> FALSE, pc |-> Len(order) + 1, prev |-> prev,
                   failed |-> {}]
    ELSE /\ kv' = CacheBatch(ByCollection(kv, os), GroupOf(os, order[g]))
         /\ op' = [kind |-> "batch", phase |-> "started", ops |-> os,
                   write |-> TRUE, pc |-> g, prev |-> prev, failed |-> {}]

\* batch(vals) up to its first await
BatchStart(os) ==
    /\ op.phase = "done"
    /\ nops + Len(os) <= MaxOps
    /\ os # <<>>
    /\ BatchAdvance(os, 1, op.ops)
    /\ nops' = nops + Len(os)
    /\ UNCHANGED <<docs, mutable, readOnly, newDb, warmDb, listenerVars, auxVars>>

\* batch: the pending bulk write is applied and the loop goes on
BatchWrite ==
    /\ op.kind = "batch"
    /\ op.phase = "started"
    /\ op.write
    /\ LET ref == RefOrder(op.ops, {})[op.pc]
           group == GroupOf(op.ops, ref)
       IN \E coll \in BulkWrite(docs[ref], ref, group, 1..Len(group)) :
              docs' = [docs EXCEPT ![ref] = coll]
    /\ BatchAdvance(op.ops, op.pc + 1, op.prev)
    /\ UNCHANGED <<mutable, readOnly, newDb, warmDb, nops, listenerVars, auxVars>>

\* batch returns
BatchReturn ==
    /\ op.kind = "batch"
    /\ op.phase = "started"
    /\ ~op.write
    /\ op' = [op EXCEPT !.phase = "done"]
    /\ UNCHANGED <<kv, docs, mutable, readOnly, newDb, warmDb, nops,
                   listenerVars, auxVars>>

\* put: the replaceOne rejects, nothing is written and put rejects
PutFails ==
    /\ op.kind = "put"
    /\ op.phase = "started"
    /\ op.write
    /\ op' = [op EXCEPT !.phase = "done", !.failed = {op.ops[1].ref}]
    /\ UNCHANGED <<kv, docs, mutable, readOnly, newDb, warmDb, nops,
                   listenerVars, auxVars>>

\* del: the deleteOne rejects, nothing is deleted and del rejects
DelFails ==
    /\ op.kind = "del"
    /\ op.phase = "started"
    /\ op.write
    /\ op' = [op EXCEPT !.phase = "done", !.failed = {op.ops[1].ref}]
    /\ UNCHANGED <<kv, docs, mutable, readOnly, newDb, warmDb, nops,
                   listenerVars, auxVars>>

\* batch: the pending bulk write rejects after any part of its operations was
\* applied (ordered: false); the await throws out of the loop over the
\* collections and batch rejects
BatchWriteFails ==
    /\ op.kind = "batch"
    /\ op.phase = "started"
    /\ op.write
    /\ LET ref == RefOrder(op.ops, {})[op.pc]
           group == GroupOf(op.ops, ref)
       IN /\ \E done \in SUBSET (1..Len(group)) :
                 \E coll \in BulkWrite(docs[ref], ref, group, done) :
                     docs' = [docs EXCEPT ![ref] = coll]
          /\ op' = [op EXCEPT !.phase = "done", !.write = FALSE,
                              !.failed = {ref}]
    /\ UNCHANGED <<kv, mutable, readOnly, newDb, warmDb, nops, listenerVars, auxVars>>

\* the engine switches readOnly
SetReadOnly(b) ==
    /\ readOnly # b
    /\ readOnly' = b
    /\ UNCHANGED <<kv, docs, mutable, newDb, warmDb, op, nops, listenerVars, auxVars>>

\* the batches a caller issues: up to n operations
Batches(n) == UNION {[1..k -> InputOps] : k \in 1..n}

\* ------------------------------------------------------------------------
\* Store adapter: get
\* ------------------------------------------------------------------------
\* reads allowed whenever the database is not new, warm or not
ReadsUnlessNew(ref) == ~newDb

\* the durable store is read for this ref
ReadsThrough(ref) == ~newDb /\ (~warmDb \/ ref = "__meta__")

NotFound == [found |-> FALSE, value |-> <<>>]
Found(x) == [found |-> TRUE, value |-> x]

\* a findOne({id}) without the sort: any document of the id
FindOneAny(coll, id) == {coll[i] : i \in {j \in 1..Len(coll) : coll[j].id = id}}

\* findOne({id}, {sort: {_block_ts: -1}}): the documents it can return
FindOneNewest(coll, id) ==
    LET hits == {i \in 1..Len(coll) : coll[i].id = id} IN
    IF hits = {} THEN {}
    ELSE LET top == SetMax({coll[i]._block_ts : i \in hits})
         IN {coll[i] : i \in {j \in hits : coll[j]._block_ts = top}}

\* get("ref.id") on cache k and documents dd: the results it can return
GetKeyIn(k, dd, ref, id) ==
    IF Cached(k, ref, id) THEN {Found(<<k[ref][id]>>)}
    ELSE IF ReadsThrough(ref) /\ FindOneNewest(dd[ref], id) # {}
    THEN {Found(<<d>>) : d \in FindOneNewest(dd[ref], id)}
    ELSE {NotFound}

GetKey(ref, id) == GetKeyIn(kv, docs, ref, id)

\* get("ref.id") issues its findOne: the cache has no value and reads are allowed
GetKeyReads(k, ref, id) == ~Cached(k, ref, id) /\ ReadsThrough(ref)

\* get("ref") issues its aggregate or its find({})
GetRefReads(ref) == ReadsThrough(ref)

IdsOf(coll) == {coll[i].id : i \in 1..Len(coll)}

\* the orders a set can be listed in
Perms(S) ==
    {p \in [1..Cardinality(S) -> S] :
        \A i, j \in 1..Cardinality(S) : i # j => p[i] # p[j]}

\* one run of the aggregate $sort(_block_ts desc), $group(id, $first),
\* $replaceRoot: the newest version of every id, in an order $group leaves open
GroupLatest(coll) ==
    LET ids == IdsOf(coll)
        picks == {f \in [ids -> {coll[i] : i \in 1..Len(coll)}] :
                     \A id \in ids : f[id] \in FindOneNewest(coll, id)}
    IN {[i \in 1..Cardinality(ids) |-> f[p[i]]] : p \in Perms(ids), f \in picks}

\* one page: the aggregate run again with $skip and $limit
Page(coll, skip) ==
    {SubSeq(g, skip + 1, IF skip + batchSize < Len(g) THEN skip + batchSize
                          ELSE Len(g)) : g \in GroupLatest(coll)}

\* while (skip < totalCountResult): the pages appended one after the other
RECURSIVE ViewFrom(_, _, _)
ViewFrom(coll, skip, total) ==
    IF skip >= total THEN {<<>>}
    ELSE {p \o r : p \in Page(coll, skip),
                   r \in ViewFrom(coll, skip + batchSize, total)}

\* the materialised view of an immutable collection
MaterialisedView(coll) == ViewFrom(coll, 0, Cardinality(IdsOf(coll)))

\* get("ref") takes the branch of the materialised view
UsesView(ref) == ReadsThrough(ref) /\ ~mutable /\ ref # "__meta__"

\* get("ref"): the results it can return
GetRef(ref) ==
    IF ReadsThrough(ref)
    THEN IF ~mutable /\ ref # "__meta__"
         THEN {IF r = <<>> THEN NotFound ELSE Found(r)
               : r \in MaterialisedView(docs[ref])}
         ELSE IF docs[ref] # <<>> THEN {Found(docs[ref])} ELSE {NotFound}
    ELSE IF ref \in DOMAIN kv
    THEN {Found([i \in 1..Cardinality(DOMAIN kv[ref]) |-> kv[ref][p[i]]])
          : p \in Perms(DOMAIN kv[ref])}
    ELSE {NotFound}

\* ------------------------------------------------------------------------
\* Store adapter: whole calls on a store st = [kv, docs]
\* ------------------------------------------------------------------------
Store(k, dd) == [kv |-> k, docs |-> dd]

\* put(key, val) from its call to its return
PutResult(st, o) ==
    Store(CacheSet(st.kv, o.ref, o.id, o.value[1]),
          IF ShouldWrite
          THEN [st.docs EXCEPT ![o.ref] = ReplaceOne(st.docs[o.ref], o.ref, o.value[1])]
          ELSE st.docs)

\* del(key) from its call to its return
DelResults(st, o) ==
    IF ShouldWrite
    THEN {Store(CacheDel(st.kv, o.ref, o.id), [st.docs EXCEPT ![o.ref] = coll])
          : coll \in DeleteOne(st.docs[o.ref], o.id)}
    ELSE {Store(CacheDel(st.kv, o.ref, o.id), st.docs)}

\* batch(vals) from collection g on to its return
RECURSIVE BatchResults(_, _, _)
BatchResults(st, os, g) ==
    LET order == RefOrder(os, {}) IN
    IF g > Len(order) THEN {st}
    ELSE LET ref == order[g]
             group == GroupOf(os, ref)
             k == CacheBatch(st.kv, group)
             colls == IF ShouldWrite
                      THEN BulkWrite(st.docs[ref], ref, group, 1..Len(group))
                      ELSE {st.docs[ref]}
         IN UNION {BatchResults(Store(k, [st.docs EXCEPT ![ref] = coll]), os, g + 1)
                   : coll \in colls}

\* how often document d occurs in a collection
Count(coll, d) == Cardinality({i \in 1..Len(coll) : coll[i] = d})

\* two stores with the same cache and the same documents in every collection
SameStore(x, y) ==
    /\ x.kv = y.kv
    /\ \A ref \in Refs : \A d \in Values :
           Count(x.docs[ref], d) = Count(y.docs[ref], d)

\* ------------------------------------------------------------------------
\* Specifications
\* ------------------------------------------------------------------------
\* the store while the listener specification runs
StoreQuiet ==
    /\ kv = EmptyMap
    /\ docs = [r \in Refs |-> <<>>]
    /\ mutable = FALSE
    /\ readOnly = FALSE
    /\ newDb = FALSE
    /\ warmDb = FALSE
    /\ op = NoOp
    /\ nops = 0

\* the listener while the store specification runs
ListenerQuiet ==
    /\ listening = FALSE
    /\ inSync = FALSE
    /\ blockQueue = <<>>
    /\ latestBlocks = [c \in Chains |-> InitLatest]
    /\ startBlocks = [c \in Chains |-> 1]
    /\ emitted = [c \in Chains |-> InitLatest]
    /\ loop = "stopped"
    /\ currentProcess = 0
    /\ calls = <<>>
    /\ detach = [c \in Chains |-> "attached"]

\* the error handler while another specification runs
ErrorQuiet ==
    /\ lastError = "none"
    /\ rejected = <<>>
    /\ hasReject = FALSE

\* the staging while another specification runs
StagingQuiet ==
    /\ staging = <<>>
    /\ disk = {}
    /\ cleanup = FALSE

AuxQuiet == ErrorQuiet /\ StagingQuiet /\ ReceiptInit /\ RangeQuiet

Init == ListenerInit /\ StoreQuiet /\ AuxQuiet

Next ==
    \/ \E c \in Chains, n \in 1..MaxBlock : ListenerBlock(c, n)
    \/ SetInSync
    \/ StopListening
    \/ AttemptNextBlock
    \/ \E i \in 1..MaxCalls : HandlerReturns(i)
    \/ \E i \in 1..MaxCalls : HandlerThrows(i)
    \/ \E i \in 1..MaxCalls : TimerFires(i)
    \/ LoopExit

Spec == Init /\ [][Next]_vars

\* the listener in sync from the start and kept listening, with the detach
\* functions that attachListeners returns
DetachInit == Init /\ inSync /\ startBlocks = [c \in Chains |-> 1]

DetachNext ==
    \/ \E c \in Chains, n \in 1..MaxBlock : ListenerBlock(c, n)
    \/ AttemptNextBlock
    \/ \E i \in 1..MaxCalls : HandlerReturns(i)
    \/ \E i \in 1..MaxCalls : HandlerThrows(i)
    \/ \E i \in 1..MaxCalls : TimerFires(i)
    \/ \E c \in Chains : DetachStart(c)
    \/ \E c \in Chains : DetachFinish(c)

DetachSpec == DetachInit /\ [][DetachNext]_vars

StoreSpecInit == StoreInit /\ ListenerQuiet /\ AuxQuiet

StoreNext ==
    \/ \E ref \in Refs : \E v \in ValuesOf(ref) : PutStart(ref, v)
    \/ PutFinish
    \/ \E o \in {x \in InputOps : x.type = "del"} : DelStart(o.ref, o.id)
    \/ DelFinish
    \/ \E os \in Batches(MaxOps - nops) : BatchStart(os)
    \/ BatchWrite
    \/ BatchReturn
    \/ \E b \in BOOLEAN : SetReadOnly(b)

StoreSpec == StoreSpecInit /\ [][StoreNext]_vars

\* the store adapter on a database whose writes can be rejected
StoreFaultNext ==
    \/ \E ref \in Refs : \E v \in ValuesOf(ref) : PutStart(ref, v)
    \/ PutFinish
    \/ PutFails
    \/ \E o \in {x \in InputOps : x.type = "del"} : DelStart(o.ref, o.id)
    \/ DelFinish
    \/ DelFails
    \/ \E os \in Batches(MaxOps - nops) : BatchStart(os)
    \/ BatchWrite
    \/ BatchWriteFails
    \/ BatchReturn

StoreFaultSpec == StoreSpecInit /\ [][StoreFaultNext]_vars

\* the provider of a chain emitting blocks and errors while the dispatcher
\* works through the queue
ErrorSpecInit ==
    /\ ListenerInit /\ inSync /\ startBlocks = [c \in Chains |-> 1]
    /\ StoreQuiet
    /\ ErrorInit
    /\ StagingQuiet
    /\ ReceiptInit
    /\ RangeQuiet

ErrorNext ==
    \/ \E c \in Chains, n \in 1..MaxBlock : ListenerBlock(c, n)
    \/ AttemptNextBlock
    \/ \E i \in 1..MaxCalls : HandlerReturns(i)
    \/ \E code \in ErrorCodes : ProviderError(code)

ErrorSpec == ErrorSpecInit /\ [][ErrorNext]_vars

\* the listener receiving consecutive block numbers while listening and in
\* sync, every staging succeeding and every handler returning before its
\* timeout
LiveListenerBlock(c) ==
    /\ emitted[c] < MaxBlock
    /\ Len(calls) + Len(blockQueue) < MaxCalls
    /\ ListenerBlock(c, emitted[c] + 1)

LiveAttempt ==
    /\ AttemptNextBlock
    /\ loop' # "stopped"
    /\ \A i \in 1..Len(calls') : calls'[i].parts = "ok"

LiveInit == Init /\ inSync

LiveNext ==
    \/ \E c \in Chains : LiveListenerBlock(c)
    \/ LiveAttempt
    \/ \E i \in 1..MaxCalls : HandlerReturns(i)

\* the loop polls until it finds a block, and every handler returns
LiveSpec ==
    /\ LiveInit
    /\ [][LiveNext]_vars
    /\ WF_vars(LiveAttempt)
    /\ \A i \in 1..MaxCalls : WF_vars(HandlerReturns(i))

\* the staging futures of the queue entries, from creation to the reader
StagingSpecInit ==
    /\ ListenerQuiet /\ StoreQuiet /\ ErrorQuiet /\ StagingInit /\ ReceiptInit
    /\ RangeQuiet

StagingNext ==
    \/ \E by \in EntrySources, c \in Chains, n \in (InitLatest + 1)..MaxBlock :
           RecordEntry(by, c, n)
    \/ \E i \in 1..MaxEntries : StageAdvance(i)
    \/ \E i \in 1..MaxEntries : StageFails(i)
    \/ \E i \in 1..MaxEntries : ReaderInvoked(i)

StagingSpec == StagingSpecInit /\ [][StagingNext]_vars

\* one getTransactionReceipt call against a provider that can fail
ReceiptNext ==
    \/ \E arg \in TxArgs : ReceiptCall(arg)
    \/ \E a \in TxAnswers(rx.arg) : TxAnswer(a)
    \/ \E h \in Hashes \cup {""} : \E a \in ReceiptAnswers(h) : ReceiptAnswer(a)
    \/ \E c \in Chains, arg \in TxArgs : GetReceiptCall(c, arg)
    \/ \E saved \in BOOLEAN : GetReceiptSave(saved)

ReceiptSpecInit ==
    /\ ListenerQuiet /\ StoreQuiet /\ ErrorQuiet /\ StagingInit /\ ReceiptInit
    /\ RangeQuiet

ReceiptSpec == ReceiptSpecInit /\ [][ReceiptNext]_vars

\* one txsFromRange call and the consumer of its reqStack
RangeSpecInit ==
    /\ ListenerQuiet /\ StoreQuiet /\ ErrorQuiet /\ StagingQuiet /\ ReceiptInit
    /\ RangeInit

RangeNext ==
    \/ \E ok \in BOOLEAN : LoopFetch(ok)
    \/ LoopHit
    \/ LoopNoData
    \/ LoopAdvance
    \/ \E i \in 1..MaxBlock, ok \in BOOLEAN : RunRetry(i, ok)

RangeSpec == RangeSpecInit /\ [][RangeNext]_vars

\* the passes of the loop that the runtime completes on its own
RangeLoop ==
    \/ \E ok \in BOOLEAN : LoopFetch(ok)
    \/ LoopHit
    \/ LoopAdvance

\* one txsFromRange call whose reads and fetches all complete
RangeLiveSpec == RangeSpec /\ WF_vars(RangeLoop)

\* ------------------------------------------------------------------------
\* Claims about the listener and the dispatcher
\* ------------------------------------------------------------------------
\* the processListenerBlock invocations of chain c, oldest first
CallsOf(c) == SelectSeq(calls, LAMBDA r : r.chainId = c)

\* the numbers of the calls that are still inside processListenerBlock
Running == {i \in 1..Len(calls) : calls[i].handler = "running"}

\* C1: per chain, the numbers processListenerBlock is invoked with start right
\* after the last completed block and each next one is either the successor of
\* a block that completed in time or the re-attempt of an attempt that threw
\* or timed out.
C1_StrictlySequential ==
    \A c \in Chains :
        LET s == CallsOf(c) IN
        /\ Len(s) > 0 => s[1].number = InitLatest + 1
        /\ \A k \in 1..(Len(s) - 1) :
               \/ /\ s[k + 1].number = s[k].number + 1
                  /\ s[k].handler = "ok"
                  /\ ~s[k].cancelled
               \/ /\ s[k + 1].number = s[k].number
                  /\ (s[k].handler = "thrown" \/ s[k].cancelled)

\* C2: after a gap (the listener enqueued N+k while latest = N) every number
\* N+1 .. N+k is processed before any higher number: whenever a number is
\* handed to processListenerBlock, each lower number above the initial latest
\* block has already been processed to completion.
C2_GapFilledInOrder ==
    \A c \in Chains :
        LET s == CallsOf(c) IN
        \A k \in 1..Len(s) :
            \A m \in (InitLatest + 1)..(s[k].number - 1) :
                \E j \in 1..(k - 1) : s[j].number = m /\ s[j].handler = "ok"

\* C3: once the timeout fired for block N, no higher block of that chain
\* starts processing before N has been re-attempted.
C3_NoLaterBlockBeforeReattempt ==
    \A i \in 1..Len(calls) : \A j \in (i + 1)..Len(calls) :
        ( /\ calls[i].cancelled
          /\ calls[j].chainId = calls[i].chainId
          /\ calls[j].number > calls[i].number )
        => \E k \in (i + 1)..(j - 1) :
               /\ calls[k].chainId = calls[i].chainId
               /\ calls[k].number = calls[i].number

\* C4: when processListenerBlock throws for (chainId, N), the entry the
\* dispatcher takes next is (chainId, N) again.
C4_ThrownBlockIsNext ==
    \A i \in 1..(Len(calls) - 1) :
        calls[i].handler = "thrown"
        => /\ calls[i + 1].chainId = calls[i].chainId
           /\ calls[i + 1].number = calls[i].number

\* C5: at most one processListenerBlock invocation is in progress at any time.
C5_OneBlockAtATime == Cardinality(Running) <= 1

\* ------------------------------------------------------------------------
\* Claims about the store adapter
\* ------------------------------------------------------------------------
\* a put call returns in this step
PutCompletes == op.kind = "put" /\ op.phase = "started" /\ op'.phase = "done"

\* a put, del or batch call is made in this step
CallStarts == op.phase = "done" /\ op'.phase = "started"

\* the documents of a collection
DocsOf(coll) == {coll[i] : i \in 1..Len(coll)}

\* the versions of v's id in a collection that carry another _block_ts
OtherVersions(coll, v) ==
    {d \in DocsOf(coll) : d.id = v.id /\ d._block_ts # v._block_ts}

\* the highest _block_ts among documents
TopTs(ds) == SetMax({d._block_ts : d \in ds})

\* a put of version v to the immutable collection c, with durable writes on,
\* returns while c holds a version of the same id with another _block_ts
VersionedPutCompletes ==
    /\ PutCompletes
    /\ op.write
    /\ ~mutable
    /\ op.ops[1].ref = "c"
    /\ OtherVersions(docs["c"], op.ops[1].value[1]) # {}

\* both versions persist as separate documents
BothPersist(v) ==
    /\ \A d \in OtherVersions(docs["c"], v) :
           Count(docs'["c"], d) = Count(docs["c"], d)
    /\ Count(docs'["c"], v) = 1

\* C6 as stated: in an immutable collection two puts of one id with differing
\* _block_ts both persist, and a get of the id after the second put returns
\* the version with the higher _block_ts, whichever put came last.
C6_NewestVersionReturned ==
    [][VersionedPutCompletes =>
        LET v == op.ops[1].value[1] IN
        /\ BothPersist(v)
        /\ \A r \in GetKeyIn(kv', docs', "c", v.id) :
               /\ r.found
               /\ r.value[1]._block_ts
                      = TopTs(OtherVersions(docs["c"], v) \cup {v})]_vars

\* C6 as amended: both versions persist; a get of the id after the second put
\* returns the cached value of that last put; a get that misses the cache and
\* reads the collection returns the version with the higher _block_ts.
C6_LastPutReturned ==
    [][VersionedPutCompletes =>
        LET v == op.ops[1].value[1] IN
        /\ BothPersist(v)
        /\ GetKeyIn(kv', docs', "c", v.id) = {Found(<<v>>)}
        /\ ReadsThrough("c") =>
               \A r \in GetKeyIn(EmptyMap, docs', "c", v.id) :
                   /\ r.found
                   /\ r.value[1]._block_ts
                          = TopTs(OtherVersions(docs["c"], v) \cup {v})]_vars

\* two puts of one id in a row, the later one with the lower _block_ts, have
\* returned: both versions are stored and get returns the later put's value
C6_Witness ==
    /\ op.kind = "put" /\ op.phase = "done" /\ op.write /\ ~mutable
    /\ op.ops[1].ref = "c"
    /\ Len(op.prev) = 1 /\ op.prev[1].type = "put" /\ op.prev[1].ref = "c"
    /\ op.prev[1].id = op.ops[1].id
    /\ op.prev[1].value[1]._block_ts > op.ops[1].value[1]._block_ts
    /\ Count(docs["c"], op.prev[1].value[1]) = 1
    /\ Count(docs["c"], op.ops[1].value[1]) = 1
    /\ GetKey("c", op.ops[1].id) = {Found(<<op.ops[1].value[1]>>)}

\* C7: from any store state, batch([put a, put b, del c]) ends in the same
\* hot cache and the same durable documents as put(a); put(b); del(c), in
\* every order the bulk write applies its operations.
C7_BatchEqualsSequence ==
    op.phase = "done" =>
        \A a, b \in {o \in InputOps : o.type = "put"} :
        \A c \in {o \in InputOps : o.type = "del"} :
            \A x \in DelResults(PutResult(PutResult(Store(kv, docs), a), b), c) :
            \A y \in BatchResults(Store(kv, docs), <<a, b, c>>, 1) :
                SameStore(x, y)

\* the same put was made twice in a row and the second one, with durable
\* writes on, has returned
SamePutTwice ==
    /\ op.kind = "put" /\ op.phase = "done" /\ op.write
    /\ op.prev = op.ops

\* C8: after two put(key, v) calls with the same _block_ts, _block_num and
\* _chain_id the collection holds exactly one document for that id and version
\* (for that id, when the collection is mutable), and a read of the key from
\* the hot cache returns v.
C8_SamePutLeavesOneDocument ==
    SamePutTwice =>
        LET o == op.ops[1]
            v == o.value[1]
            coll == docs[o.ref]
        IN /\ Cardinality({i \in 1..Len(coll) : Matches(o.ref, v, coll[i])}) = 1
           /\ Count(coll, v) = 1
           /\ Cached(kv, o.ref, o.id) /\ kv[o.ref][o.id] = v
           /\ GetKey(o.ref, o.id) = {Found(<<v>>)}

C8_Witness ==
    /\ SamePutTwice
    /\ op.ops[1].ref = "c"
    /\ ~mutable
    /\ Count(docs["c"], op.ops[1].value[1]) = 1

\* the hot cache holds what the operations of a call ask for: the value of
\* the last put of a key, no entry for a key whose last operation is a del
CacheReflects(k, os) ==
    \A i \in 1..Len(os) :
        (\A j \in (i + 1)..Len(os) : os[j].ref # os[i].ref \/ os[j].id # os[i].id)
        => IF os[i].type = "put"
           THEN Cached(k, os[i].ref, os[i].id) /\ k[os[i].ref][os[i].id] = os[i].value[1]
           ELSE os[i].ref \in DOMAIN k /\ ~Cached(k, os[i].ref, os[i].id)

\* C9: a put, del or batch call made while engine.readOnly is true issues no
\* durable write and leaves the documents as they are, and the hot cache has
\* the call's changes as soon as the call is made.
C9_ReadOnlyWritesCacheOnly ==
    [][/\ (CallStarts /\ readOnly) =>
              /\ ~op'.write
              /\ CacheReflects(kv', op'.ops)
              /\ docs' = docs
       /\ (op.phase = "started" /\ ~op.write) => docs' = docs]_vars

\* a batch made in readOnly mode on a database that holds documents has
\* returned: the cache has its put, the collection does not
C9_Witness ==
    /\ readOnly
    /\ op.kind = "batch" /\ op.phase = "done" /\ ~op.write
    /\ docs["c"] # <<>>
    /\ \E i \in 1..Len(op.ops) :
           /\ op.ops[i].type = "put" /\ op.ops[i].ref = "c"
           /\ Count(docs["c"], op.ops[i].value[1]) = 0
           /\ Cached(kv, "c", op.ops[i].id)
           /\ kv["c"][op.ops[i].id] = op.ops[i].value[1]

\* C10: get("c") on an immutable collection whose documents are versions of
\* N ids returns exactly N records, one per id, each a version with the
\* highest _block_ts of its id, on one page or more.
C10_ViewHasNewestOfEveryId ==
    (~mutable /\ ReadsThrough("c") /\ docs["c"] # <<>>) =>
        \A r \in GetRef("c") :
            /\ r.found
            /\ Len(r.value) = Cardinality(IdsOf(docs["c"]))
            /\ \A id \in IdsOf(docs["c"]) :
                   Cardinality({i \in 1..Len(r.value) : r.value[i].id = id}) = 1
            /\ \A i \in 1..Len(r.value) :
                   r.value[i] \in FindOneNewest(docs["c"], r.value[i].id)

\* the key of a version in an immutable collection
KeyTuple(d) == <<d.id, d._block_ts, d._block_num, d._chain_id>>

\* a single put to the immutable collection c applies its replaceOne
ImmutablePutWrites ==
    /\ PutCompletes /\ op.write /\ ~mutable /\ op.ops[1].ref = "c"

\* a batch applies the bulk write of its operations on the immutable collection c
ImmutableBatchWrites ==
    /\ op.kind = "batch" /\ op.phase = "started" /\ op.write /\ ~mutable
    /\ RefOrder(op.ops, {})[op.pc] = "c"
    /\ docs' # docs \/ op' # op

\* the documents of a collection that carry key tuple t
WithKey(coll, t) == {i \in 1..Len(coll) : KeyTuple(coll[i]) = t}

\* C11: a put to an immutable collection other than __meta__, alone or in a
\* batch, replaces no document whose (id, _block_ts, _block_num, _chain_id)
\* differs from the value's: every version stored under another key is there
\* unchanged afterwards, and a put of a key that was not stored adds a document.
C11_PutKeepsOtherVersions ==
    [][/\ ImmutablePutWrites =>
              LET v == op.ops[1].value[1] IN
              /\ \A d \in DocsOf(docs["c"]) :
                     KeyTuple(d) # KeyTuple(v)
                     => Count(docs'["c"], d) = Count(docs["c"], d)
              /\ Count(docs'["c"], v) >= 1
              /\ WithKey(docs["c"], KeyTuple(v)) = {}
                     => Len(docs'["c"]) = Len(docs["c"]) + 1
       /\ ImmutableBatchWrites =>
              LET group == GroupOf(op.ops, "c")
                  puts == {i \in 1..Len(group) : group[i].type = "put"}
                  dels == {group[i].id : i \in {j \in 1..Len(group) : group[j].type = "del"}}
              IN /\ \A d \in DocsOf(docs["c"]) :
                        ( /\ d.id \notin dels
                          /\ \A i \in puts : KeyTuple(group[i].value[1]) # KeyTuple(d) )
                        => Count(docs'["c"], d) = Count(docs["c"], d)
                 /\ \A i \in puts :
                        group[i].id \notin dels
                        => WithKey(docs'["c"], KeyTuple(group[i].value[1])) # {}]_vars

\* a batch put a second version of id1 into the immutable collection c, and
\* the version stored before is still there
C11_Witness ==
    /\ op.kind = "batch" /\ op.phase = "done" /\ ~mutable
    /\ \E i \in 1..Len(op.ops) :
           /\ op.ops[i].type = "put" /\ op.ops[i].ref = "c"
           /\ op.ops[i].id = "id1" /\ op.ops[i].value[1]._block_ts = 1
           /\ op.ops[i].value[1].data = "v2"
           /\ Count(docs["c"], op.ops[i].value[1]) = 1
    /\ Count(docs["c"], Version("id1", 2)) = 1

\* the call in progress is the first one made on this adapter
FirstCall == op.kind # "none" /\ op.prev = <<>>

\* the durable write of a call is rejected in this step
WriteRejected ==
    op.phase = "started" /\ op'.phase = "done" /\ op'.failed # {}

\* a put or a del whose durable write was issued returns in this step
SingleWriteSucceeds ==
    /\ op.kind \in {"put", "del"} /\ op.phase = "started" /\ op.write
    /\ op'.phase = "done" /\ op'.failed = {}

\* C12: after any calls, failed ones included, the hot-cache entry of every
\* (collection, id) is the value of the latest write to the pair that
\* succeeded durably and is absent when that write was a delete. Stated for
\* the first call of an adapter, whose cache starts empty: when its write is
\* rejected and has changed no document, the collection has no cache entry;
\* when its write succeeds the cache holds what the call wrote.
C12_CacheIsLatestDurableWrite ==
    [][/\ (FirstCall /\ WriteRejected /\ docs' = docs) =>
              \A ref \in op'.failed : \A id \in Ids : ~Cached(kv', ref, id)
       /\ (FirstCall /\ SingleWriteSucceeds) => CacheReflects(kv', op.ops)]_vars

\* a del call returns in this step
DelCompletes ==
    /\ op.kind = "del" /\ op.phase = "started"
    /\ op'.phase = "done" /\ op'.failed = {}

\* collection after is collection before without one copy of document d
RemovedOnly(before, after, d) ==
    /\ Len(after) = Len(before) - 1
    /\ Count(after, d) = Count(before, d) - 1
    /\ \A e \in DocsOf(before) \ {d} : Count(after, e) = Count(before, e)

\* C13: del("ref.id") removes the hot-cache entry of ref.id and, unless
\* readOnly, removes from the collection exactly the document of that id with
\* the highest _block_ts, or nothing when no document has the id; older
\* versions of the id and the documents of other ids remain.
C13_DelRemovesNewestVersion ==
    [][DelCompletes =>
        LET o == op.ops[1]
            coll == docs[o.ref]
        IN /\ ~Cached(kv', o.ref, o.id)
           /\ \A r \in Refs \ {o.ref} : docs'[r] = docs[r]
           /\ IF op.write /\ FindOneNewest(coll, o.id) # {}
              THEN \E d \in FindOneNewest(coll, o.id) :
                       RemovedOnly(coll, docs'[o.ref], d)
              ELSE docs'[o.ref] = coll]_vars

\* the documents of a collection that carry id
VersionsOf(coll, id) == {d \in DocsOf(coll) : d.id = id}

CachedValues(k, ref) ==
    {[i \in 1..Cardinality(DOMAIN k[ref]) |-> k[ref][p[i]]] : p \in Perms(DOMAIN k[ref])}

\* a get answered without the durable store: from the hot cache, or NotFound
FromCacheOnly(ref) ==
    /\ \A id \in Ids :
           GetKey(ref, id) = IF Cached(kv, ref, id) THEN {Found(<<kv[ref][id]>>)}
                             ELSE {NotFound}
    /\ GetRef(ref) = IF ref \in DOMAIN kv
                     THEN {Found(x) : x \in CachedValues(kv, ref)}
                     ELSE {NotFound}

\* C15: with newDb true no get, by ref.id or by ref, reads the durable store;
\* with warmDb true a get reads it only for __meta__; every other get is
\* answered from the hot cache or is NotFound.
C15_NewAndWarmSkipReads ==
    \A ref \in Refs :
        LET reads == GetRefReads(ref) \/ \E id \in Ids : GetKeyReads(kv, ref, id)
        IN /\ newDb => ~reads /\ FromCacheOnly(ref)
           /\ (warmDb /\ ref # "__meta__") => ~reads /\ FromCacheOnly(ref)
           /\ (warmDb /\ reads) => ref = "__meta__"

\* a warm adapter on a database that holds documents of c: after a put of id1
\* the get of id1 is served from the cache and the get of id2, which the
\* collection holds, is NotFound
C15_Witness ==
    /\ warmDb /\ ~newDb
    /\ op.kind = "put" /\ op.phase = "done"
    /\ Cached(kv, "c", "id1") /\ ~Cached(kv, "c", "id2")
    /\ VersionsOf(docs["c"], "id2") # {}
    /\ GetKey("c", "id2") = {NotFound}
    /\ GetRef("c") = {Found(<<kv["c"]["id1"]>>)}

\* the hot cache holds the collection ref
CacheHolds(ref) == ref \in DOMAIN kv /\ DOMAIN kv[ref] # {}

\* C16: get("ref"): when the durable scan or the materialised view yields no
\* record and the hot cache holds the collection, the cached values are
\* returned; NotFound only when neither the durable store nor the hot cache
\* has anything for ref. Stated for a get made while no write is in progress.
C16_GetRefFallsBackToCache ==
    op.phase = "done" =>
        \A ref \in Refs :
            /\ (docs[ref] = <<>> /\ CacheHolds(ref))
                   => GetRef(ref) = {Found(x) : x \in CachedValues(kv, ref)}
            /\ NotFound \in GetRef(ref)
                   => /\ ~CacheHolds(ref)
                      /\ docs[ref] = <<>> \/ ~ReadsThrough(ref)

\* the operations a caller can put in a batch: puts with and without an _id,
\* puts without a value, dels
RawOps ==
    {RawPut("c", RawValue(v, oid)) :
         v \in {Version("id1", 1), Version("id2", 2)}, oid \in {"none", "oid"}} \cup
    {RawPut("__meta__", RawValue(Version("id1", 1), oid)) : oid \in {"none", "oid"}} \cup
    {RawPutNoValue("c", "id1"), RawPutNoValue("__meta__", "id1")} \cup
    {DelOp("c", "id1"), DelOp("__meta__", "id1")}

RawBatches == UNION {[1..k -> RawOps] : k \in 1..MaxOps}

\* the positions of the operations of a batch that have an effect on ref
EffectiveAt(os, ref) ==
    {i \in 1..Len(os) : os[i].ref = ref /\ (os[i].type = "del" \/ os[i].value # <<>>)}

\* bulk operation b is what the claim prescribes for operation o on ref
Prescribed(b, ref, o) ==
    IF o.type = "put"
    THEN LET val == o.value[1] IN
         /\ b.name = "replaceOne"
         /\ b.upsert
         /\ b.filter.id = o.id
         /\ b.filter.block =
                IF mutable \/ ref = "__meta__" THEN <<>>
                ELSE <<val._block_ts, val._block_num, val._chain_id>>
         /\ b.replacement =
                <<[k \in (DOMAIN val) \ {"_id"} |-> val[k]]>>
    ELSE /\ b.name = "deleteMany"
         /\ b.filter = [id |-> o.id, block |-> <<>>]

\* the bulk writes of batch(os) are those the claim prescribes
PrescribedCalls(os) ==
    LET issued == BulkWriteCalls(os) IN
    \A ref \in Refs :
        LET mine == {k \in 1..Len(issued) : issued[k].collection = ref}
            at == EffectiveAt(os, ref)
        IN /\ Cardinality(mine) = IF at = {} THEN 0 ELSE 1
           /\ \A k \in mine :
                  /\ ~issued[k].ordered
                  /\ issued[k].forceServerObjectId
                  /\ Len(issued[k].operations) = Cardinality(at)
                  /\ \E f \in [1..Cardinality(at) -> at] :
                         /\ \A i, j \in 1..Cardinality(at) : i < j => f[i] < f[j]
                         /\ \A i \in 1..Cardinality(at) :
                                Prescribed(issued[k].operations[i], ref, os[f[i]])

\* a batch waits for the bulk write of the collection it has reached
BulkWritePending ==
    op.kind = "batch" /\ op.phase = "started" /\ op.write

\* C17: with durable writes on, batch(ops) issues exactly one bulk write per
\* collection that has an effective op, with ordered false and server-assigned
\* object ids, holding one operation per op in input order: a put is a
\* replaceOne with upsert and the filter {id} (mutable or __meta__) or {id,
\* _block_ts, _block_num, _chain_id} (immutable) whose replacement is the
\* value without _id, a del is a deleteMany on {id}. Checked for every batch a
\* caller can pass, and for every bulk write the adapter waits for: what the
\* database does with it is what these operations do, in any order.
C17_OneBulkWritePerCollection ==
    /\ (op.kind = "none" /\ ShouldWrite) =>
           \A os \in RawBatches : PrescribedCalls(os)
    /\ BulkWritePending =>
           LET ref == RefOrder(op.ops, {})[op.pc]
               group == GroupOf(op.ops, ref)
               batch == BulkOpsOf(op.ops, ref)
           IN /\ Len(batch) = Len(group) /\ Len(batch) > 0
              /\ BulkWrite(docs[ref], ref, group, 1..Len(group))
                     = ApplyPayload(docs[ref], batch, 1..Len(batch))

\* a batch on the immutable collection c and on __meta__ has written both
C17_Witness ==
    /\ op.kind = "batch" /\ op.phase = "done" /\ op.failed = {}
    /\ ~mutable /\ ~readOnly
    /\ Len(BulkWriteCalls(op.ops)) = 2
    /\ BulkWriteCalls(op.ops)[1].collection = "c"
    /\ BulkWriteCalls(op.ops)[1].operations[1].name = "replaceOne"
    /\ BulkWriteCalls(op.ops)[1].operations[1].filter.block # <<>>
    /\ Count(docs["c"], BulkWriteCalls(op.ops)[1].operations[1].replacement[1]) = 1
    /\ Len(docs["__meta__"]) = 1

\* a batch has ended because the bulk write of one of its collections was
\* rejected
BatchRejected == op.kind = "batch" /\ op.phase = "done" /\ op.failed # {}

\* the collection holds what the operations os ask for: the value of a put,
\* no document of a deleted id (for the ids that one operation alone names)
DurableReflects(coll, os) ==
    \A i \in 1..Len(os) :
        (\A j \in (1..Len(os)) \ {i} : os[j].id # os[i].id)
        => IF os[i].type = "put"
           THEN Count(coll, os[i].value[1]) >= 1
           ELSE VersionsOf(coll, os[i].id) = {}

\* C18: in a batch over several collections each collection's operations are
\* committed on their own: when the bulk write of one collection is rejected,
\* the operations of every other collection of the batch are still applied
\* to the durable store and to the hot cache.
C18_CollectionsCommitIndependently ==
    BatchRejected =>
        \A ref \in Refs \ op.failed :
            LET group == GroupOf(op.ops, ref) IN
            group # <<>> =>
                /\ CacheReflects(kv, group)
                /\ DurableReflects(docs[ref], group)

\* C19: __meta__ is treated as mutable whatever the adapter's mutable
\* setting: a put and a batch put on __meta__ filter by id alone, so after
\* any writes there is at most one document per __meta__ id, and get("__meta__")
\* does not go through the latest-per-id materialised view.
C19_MetaAlwaysMutable ==
    /\ \A id \in Ids :
           Cardinality({i \in 1..Len(docs["__meta__"]) : docs["__meta__"][i].id = id}) <= 1
    /\ \A v \in ValuesOf("__meta__") : \A d \in Values :
           Matches("__meta__", v, d) <=> d.id = v.id
    /\ \A o \in {x \in InputOps : x.type = "put" /\ x.ref = "__meta__"} :
           BulkOpOf("__meta__", o).filter = [id |-> o.id, block |-> <<>>]
    /\ ~UsesView("__meta__")
    /\ ~newDb => GetRef("__meta__") =
                     IF docs["__meta__"] = <<>> THEN {NotFound}
                     ELSE {Found(docs["__meta__"])}

\* on an immutable adapter two puts of __meta__.id1 with different _block_ts
\* have returned and __meta__ holds the one document of the later put
C19_Witness ==
    /\ ~mutable
    /\ op.kind = "put" /\ op.phase = "done" /\ op.ops[1].ref = "__meta__"
    /\ Len(op.prev) = 1 /\ op.prev[1].type = "put" /\ op.prev[1].ref = "__meta__"
    /\ op.prev[1].value[1]._block_ts # op.ops[1].value[1]._block_ts
    /\ docs["__meta__"] = <<op.ops[1].value[1]>>

\* a bulk write of a batch has been issued and has not returned
BatchWritePending == op.kind = "batch" /\ op.phase = "started" /\ op.write

\* C32: in batch(ops) the hot cache reflects every put and del of the whole
\* batch, across all its collections, before the first bulk write is issued:
\* while any bulk write of the batch is pending, the cache holds the batch's
\* changes of every collection and a get of a key the batch put returns the
\* new value.
C32_CacheHasWholeBatchBeforeFirstWrite ==
    BatchWritePending =>
        \A ref \in Refs :
            LET group == GroupOf(op.ops, ref) IN
            /\ CacheReflects(kv, group)
            /\ \A i \in 1..Len(group) :
                   ( /\ group[i].type = "put"
                     /\ \A j \in (i + 1)..Len(group) : group[j].id # group[i].id )
                   => GetKey(ref, group[i].id) = {Found(<<group[i].value[1]>>)}

C21_LockReleasedWithNoHandlerInFlight ==
    [][\A c \in Chains :
           (detach[c] # "released" /\ detach'[c] = "released")
           => Running = {}]_vars

\* C23: processListenerBlockSafely skips the block the dispatcher took (no
\* processListenerBlock invocation, no restack, engine.latestBlocks unchanged)
\* exactly when its number is below engine.startBlocks[chainId] or below
\* engine.latestBlocks[chainId].number, for every non-negative startBlocks.
C23_SkipsExactlyOldBlocks ==
    [][AttemptNextBlock =>
           LET head == blockQueue[1] IN
           UNCHANGED <<calls, loop, currentProcess, latestBlocks>>
           <=> \/ head.number < startBlocks[head.chainId]
               \/ head.number < latestBlocks[head.chainId]]_vars

\* C25: the dispatcher loop takes an entry off the block queue and calls
\* attemptNextBlock only when state.listening is true, the queue is non-empty
\* and state.inSync is true; while state.inSync is false no entry leaves the
\* queue and no block is processed.
C25_DispatchOnlyWhenListeningAndInSync ==
    [][/\ (AttemptNextBlock \/ Len(blockQueue') < Len(blockQueue)
                            \/ Len(calls') > Len(calls))
          => listening /\ inSync /\ blockQueue # <<>>
       /\ ~inSync => /\ Len(blockQueue') >= Len(blockQueue)
                     /\ calls = <<>> /\ calls' = <<>>
                     /\ latestBlocks' = latestBlocks]_vars

\* the queue is full and the loop is idle and listening, but the historical
\* sync has not completed: nothing was taken
C25_Witness ==
    /\ ~inSync /\ listening /\ loop = "idle"
    /\ Len(blockQueue) = MaxQueue
    /\ calls = <<>>

\* block n of chain c is in the queue
Queued(c, n) == \E k \in 1..Len(blockQueue) : blockQueue[k] = Entry(c, n)

\* block n of chain c was handed to processListenerBlock, which returned
Processed(c, n) ==
    \E i \in 1..Len(calls) :
        /\ calls[i].chainId = c /\ calls[i].number = n
        /\ calls[i].handler = "ok"

\* C26: when listening and inSync stay true, staging succeeds and every handler
\* returns before the timeout, every block number the listener enqueues in
\* consecutive ascending order is eventually processed, and eventually
\* engine.latestBlocks[chainId].number equals the highest number enqueued and
\* the queue is empty.
C26_ConsecutiveBlocksAllProcessed ==
    /\ \A c \in Chains : \A n \in 1..MaxBlock :
           Queued(c, n) ~> Processed(c, n)
    /\ <>[](/\ blockQueue = <<>>
            /\ \A c \in Chains : latestBlocks[c] = emitted[c])

\* C29: when attemptNextBlock finds head.number - latest > 1, the gap fill
\* enqueues exactly the missing numbers latest + 1 .. head.number - 1, once
\* each and in ascending order, and does not enqueue head.number again.
C29_GapFillEnqueuesMissingOnly ==
    [][AttemptNextBlock =>
           LET head == blockQueue[1]
               latest == latestBlocks[head.chainId]
           IN head.number - latest > 1 =>
                  blockQueue' =
                      Tail(blockQueue)
                          \o RecordRange(head.chainId, latest,
                                         head.number - 1)]_vars

\* C30: whenever the timeout arm fires before the processing arm has
\* finished, the cancelled flag is set on the AsyncBlockParts record the
\* processing arm holds, so the processing arm sees cancelled = true when its
\* handler returns and restacks the block, whether the staged read has
\* resolved, is still pending, or resolved to the falsy sentinel.
C30_TimeoutFlagsTheHeldParts ==
    [][\A i \in 1..Len(calls) :
           /\ TimerFires(i) => calls'[i].cancelled
           /\ (HandlerReturns(i) /\ calls[i].timer = "fired")
                  => blockQueue' =
                         restackListenerBlock(blockQueue, calls[i].chainId,
                                              calls[i].number)]_vars

\* call i returned from processListenerBlock before its timer fired
InTime(cs, i) == cs[i].handler = "ok" /\ cs[i].timer = "cleared"

\* the timeout part of C31 alone: a handler that returns before the timer
\* fires clears the timer, leaves the flag unset and restacks nothing
InTimeNotRestacked ==
    [][\A i \in 1..Len(calls) :
           (HandlerReturns(i) /\ calls[i].timer = "armed")
           => /\ InTime(calls', i)
              /\ ~calls'[i].cancelled
              /\ blockQueue' = blockQueue]_vars

\* C31: if processListenerBlock completes before the timeout fires, the
\* processing arm clears the timeout, the cancelled flag is never set for
\* that attempt and the block is not restacked: a block whose handler
\* succeeded in time is processed to completion exactly once.
C31_InTimeBlockProcessedOnce ==
    [][\A i \in 1..Len(calls') :
           InTime(calls', i) =>
               /\ ~calls'[i].cancelled
               /\ (i \in 1..Len(calls) /\ calls[i].handler = "running")
                      => blockQueue' = blockQueue
               /\ \A j \in 1..Len(calls') :
                      ( /\ InTime(calls', j)
                        /\ calls'[j].chainId = calls'[i].chainId
                        /\ calls'[j].number = calls'[i].number )
                      => j = i]_vars

\* attemptNextBlock dequeued a block that passes the skip guard and its
\* staging future rejected: no processing call was started for it
StagingFutureRejects ==
    /\ AttemptNextBlock
    /\ ShouldProcess(blockQueue[1].chainId, blockQueue[1].number)
    /\ calls' = calls

\* C33: if the staging future (asyncParts) of a dequeued block rejects, the
\* block is recovered like any other per-block error: (chainId, number)
\* re-enters the queue head and the dispatcher loop keeps running.
C33_RejectedStagingIsRestacked ==
    [][StagingFutureRejects =>
           /\ loop' # "stopped"
           /\ blockQueue' # <<>>
           /\ blockQueue'[1].chainId = blockQueue[1].chainId
           /\ blockQueue'[1].number = blockQueue[1].number]_vars

\* C34: in every reachable state the block queue holds at most one entry
\* per (chainId, number), whatever listener events, gap fills and restacks
\* have happened.
C34_QueueHasNoDuplicates ==
    \A i, j \in 1..Len(blockQueue) :
        ( /\ blockQueue[i].chainId = blockQueue[j].chainId
          /\ blockQueue[i].number = blockQueue[j].number )
        => i = j

\* ------------------------------------------------------------------------
\* Claims about the provider error handler
\* ------------------------------------------------------------------------
\* the error handler runs in this step
ErrorHandled == lastError' # lastError \/ rejected' # rejected

\* C22: the provider error handler calls errorHandlers.reject with the error
\* exactly when the code is NETWORK_ERROR, SERVER_ERROR or
\* UNSUPPORTED_OPERATION and a reject callback was supplied; for TIMEOUT and
\* every other code it calls no reject, and it never changes the queue or the
\* engine.
C22_RejectOnlyNetworkErrors ==
    [][\A code \in ErrorCodes : ProviderError(code) =>
           /\ IF /\ hasReject
                 /\ code \in {"NETWORK_ERROR", "SERVER_ERROR",
                              "UNSUPPORTED_OPERATION"}
              THEN rejected' = Append(rejected, code)
              ELSE rejected' = rejected
           /\ UNCHANGED <<listenerVars, storeVars>>]_vars

\* a timeout was swallowed after a network error had been propagated, with
\* blocks in the queue and a block in progress
C22_Witness ==
    /\ lastError = "TIMEOUT"
    /\ rejected = <<"NETWORK_ERROR">>
    /\ blockQueue # <<>>
    /\ Running # {}

\* ------------------------------------------------------------------------
\* Claims about staging
\* ------------------------------------------------------------------------
\* the combined artefact of a staging is on the given disk
Staged(st, d) == Artefact("blockAndReceipts", st.chainId, st.number) \in d

\* C24: for every queue entry, whether the listener, the gap fill or a restack
\* created it, asyncParts resolves only after the write of the combined
\* blockAndReceipts artefact of its (chainId, number) has completed, and the
\* reader is never invoked before that write.
C24_WrittenBeforeRead ==
    [][\A i \in 1..Len(staging) :
           LET before == staging[i]
               after == staging'[i]
           IN /\ (before.pc # "resolved" /\ after.pc = "resolved")
                     => before.pc = "combined" /\ Staged(after, disk')
              /\ (before.read = "none" /\ after.read # "none")
                     => before.pc = "resolved" /\ Staged(before, disk)]_vars

\* with cleanup off, the reader of an entry the gap fill created was invoked
\* and gave the staged parts, while the staging of a restacked entry is
\* still fetching
C24_Witness ==
    /\ ~cleanup
    /\ \E i, j \in 1..Len(staging) :
           /\ staging[i].by = "gap" /\ staging[i].read = "parts"
           /\ staging[j].by = "restack" /\ staging[j].pc = "receipts"

\* ------------------------------------------------------------------------
\* Claims about the fetch layer
\* ------------------------------------------------------------------------
\* the provider answered the receipt request of the pending attempt with a
\* receipt that carries a transactionHash
ReceiptYielded ==
    /\ rx.pc = "receipt"
    /\ rx'.answer # <<>>
    /\ ~rx'.answer[1].throws
    /\ rx'.answer[1].value # <<>>
    /\ rx'.answer[1].value[1].transactionHash # ""

\* C27: getTransactionReceipt never rejects and never returns a value without
\* a non-empty transactionHash: every provider exception and every receipt
\* without transactionHash starts another attempt with the same argument, and
\* the call returns the merged response and receipt as soon as the provider
\* yields a receipt with a transactionHash.
C27_RetriesUntilReceiptHasHash ==
    [][/\ rx'.pc # "rejected"
       /\ rx'.pc = "returned" =>
              /\ rx'.result # <<>>
              /\ rx'.result[1].transactionHash # ""
       /\ rx'.pc = "done" => rx'.result[1].transactionHash # ""
       /\ (rx.pc \in {"tx", "receipt"} /\ rx' # rx) =>
              IF ReceiptYielded
              THEN /\ rx'.pc = "returned"
                   /\ rx'.result[1].hash = rx.tx[1].hash
                   /\ rx'.result[1].transactionHash
                          = rx'.answer[1].value[1].transactionHash
                   /\ rx'.result[1].blockNumber
                          = rx'.answer[1].value[1].blockNumber
              ELSE \/ /\ rx.pc = "tx" /\ rx'.pc = "receipt"
                      /\ rx'.tx = rx'.answer[1].value
                      /\ rx'.tx # <<>>
                      /\ UNCHANGED <<rx.arg, rx.attempts>>
                   \/ /\ rx'.pc \in {"tx", "receipt"}
                      /\ rx'.arg = rx.arg
                      /\ rx'.attempts = rx.attempts + 1]_vars

\* the call returned on its third attempt, after the provider first threw
\* and then gave a receipt without transactionHash
C27_Witness ==
    /\ rx.pc = "returned"
    /\ rx.arg.kind = "hash"
    /\ rx.attempts = 3
    /\ rx.result[1].transactionHash = "0xa"

\* C28: in txsFromRange, when the fetch of block n of [from, to] fails, the
\* closure pushed onto reqStack re-fetches that same block n when it is run,
\* and on each further failure a closure with the attempt counter raised by
\* one is pushed, so the failed block is retried until it succeeds.
C28_RetryRefetchesFailedBlock ==
    [][\A i \in 1..Len(reqStack), ok \in BOOLEAN :
           RunRetry(i, ok) =>
               /\ fetch'.number = reqStack[i].failed
               /\ ok => reqStack[i].failed \in result'
               /\ ~ok => \E k \in 1..Len(reqStack') :
                             reqStack'[k] =
                                 RetryClosure(reqStack[i].attempts + 1,
                                              reqStack[i].failed)]_vars

\* C35: txsFromRange terminates after visiting every block of [from, to],
\* whatever the disk-cache read of each block gives: a hit with transactions,
\* a hit without transactions, a read that resolves with no data or a read
\* that rejects.
C35_RangeTerminates == <>(rangePc = "done")

====
